---------------------------- MODULE Spec2Model ----------------------------
(* Model of juggling_sim.py: the siteswap interpreter (module level), the   *)
(* per-ball state machine Ball.update / Ball.throw, and the host step       *)
(* update_frame.                                                            *)
(*                                                                          *)
(* Units.  Times are integers in milliseconds (T_beat = 0.5 s = 500,        *)
(* throw_delay = 0.25 s = 250, dt = 0.02 s = 20).  g is in 0.1 m/s^2 (98).  *)
(* vy is in 1e-4 m/s and heights y in 1e-7 m, so vy*t - 0.5*g*t^2 is an     *)
(* exact integer.  x coordinates and vx are fractions <<num, den>>; a zero  *)
(* denominator is the result of a float division by zero (nan / inf).       *)
(*                                                                          *)
(* Clock.  sim_time is a double accumulated by repeated "sim_time += dt";   *)
(* 0.02 is not representable, so after k frames the value is k*dt up to a   *)
(* rounding error, and the comparison "t < flight_time" at a mathematically *)
(* exact tie goes either way in the running program.  The model carries     *)
(* that error as at most one millisecond below k*dt, chosen at every frame. *)
EXTENDS Integers, Sequences, FiniteSets, TLC

VARIABLES pc, siteswap_input, siteswap, period, num_balls, balls, sim_time,
          nframes,
          todo,         \* balls not yet updated in the running frame
          frame_balls   \* the balls as they were when the frame began

vars == <<pc, siteswap_input, siteswap, period, num_balls, balls, sim_time,
          nframes, todo, frame_balls>>

\* ----- bounds of the model -----
MaxLen == 2
MaxFrames == 200

\* characters the user may type at the prompt
InputChars == {"0", "1", "3", "4", "5", "x"}

\* ----- Global Parameters -----
T_beat == 500
g == 98
throw_delay == 250
dt == 20

hand_positions == [R |-> << <<1, 1>>, 0 >>, L |-> << <<-1, 1>>, 0 >>]

\* None for the numeric attributes is the empty tuple, a value v is <<v>>
None == << >>
Some(v) == <<v>>
Val(o) == o[1]

\* ----- helpers for str.isdigit / int(ch) / sum / round -----
DigitVal == [c \in {"0", "1", "2", "3", "4", "5", "6", "7", "8", "9"} |->
               CASE c = "0" -> 0 [] c = "1" -> 1 [] c = "2" -> 2 [] c = "3" -> 3
                 [] c = "4" -> 4 [] c = "5" -> 5 [] c = "6" -> 6 [] c = "7" -> 7
                 [] c = "8" -> 8 [] c = "9" -> 9]

isdigit(ch) == ch \in DOMAIN DigitVal

RECURSIVE ParseDigits(_)
ParseDigits(s) ==
  IF s = << >> THEN << >>
  ELSE IF isdigit(Head(s)) THEN <<DigitVal[Head(s)]>> \o ParseDigits(Tail(s))
       ELSE ParseDigits(Tail(s))

RECURSIVE sum(_)
sum(s) == IF s = << >> THEN 0 ELSE Head(s) + sum(Tail(s))

\* int(sum(siteswap) / period) with a positive period: the float quotient
\* truncated toward zero
NumBallsCeil(ss) == (sum(ss) + Len(ss) - 1) \div Len(ss)
NumBalls(ss) == sum(ss) \div Len(ss)

\* int(round(n / d)) for n >= 0, d > 0: Python 3 rounds halves to even
RoundTrunc(n, d) == n \div d
Round(n, d) ==
  LET q == n \div d
      r == n % d
  IN  IF 2 * r < d THEN q
      ELSE IF 2 * r > d THEN q + 1
      ELSE IF q % 2 = 0 THEN q ELSE q + 1

\* ----- Ball -----
NewBallShifted(ball_id, next_throw_time, hand) ==
  [ball_id |-> ball_id, next_throw_time |-> next_throw_time + T_beat,
   hand |-> hand, state |-> "in_hand", pos |-> hand_positions[hand],
   start_time |-> None, flight_time |-> None, catch_time |-> None,
   start_pos |-> None, vx |-> None, vy |-> None, dest_hand |-> "None"]
NewBall(ball_id, next_throw_time, hand) ==
  [ball_id |-> ball_id, next_throw_time |-> next_throw_time,
   hand |-> hand, state |-> "in_hand", pos |-> hand_positions[hand],
   start_time |-> None, flight_time |-> None, catch_time |-> None,
   start_pos |-> None, vx |-> None, vy |-> None, dest_hand |-> "None"]

Opposite(h) == IF h = "R" THEN "L" ELSE "R"

\* lines 48-51: odd throw values cross, even throw values stay
DestHandAlwaysCross(source_hand, throw_value) == Opposite(source_hand)
DestHandEvenCross(source_hand, throw_value) ==
  IF throw_value % 2 = 0 THEN Opposite(source_hand) ELSE source_hand
DestHand(source_hand, throw_value) ==
  IF throw_value % 2 = 1 THEN Opposite(source_hand) ELSE source_hand

\* Ball.throw
ThrowSetsHand(b, current_time, ss, p) ==
  LET beat == Round(b.next_throw_time, T_beat)
      throw_value == ss[(beat % p) + 1]
      flight_time == throw_value * T_beat
      source_hand == b.hand
      source_pos == hand_positions[source_hand]
      dest_hand == DestHand(source_hand, throw_value)
      dest_pos == hand_positions[dest_hand]
  IN  [b EXCEPT !.flight_time = Some(flight_time),
                !.catch_time = Some(current_time + flight_time),
                !.dest_hand = dest_hand,
                !.hand = dest_hand,
                !.start_time = Some(current_time),
                !.start_pos = source_pos,
                !.vx = <<dest_pos[1][1] - source_pos[1][1], flight_time>>,
                !.vy = Some((g * flight_time) \div 2),
                !.state = "in_air"]
ThrowHalfVy(b, current_time, ss, p) ==
  LET beat == Round(b.next_throw_time, T_beat)
      throw_value == ss[(beat % p) + 1]
      flight_time == throw_value * T_beat
      source_hand == b.hand
      source_pos == hand_positions[source_hand]
      dest_hand == DestHand(source_hand, throw_value)
      dest_pos == hand_positions[dest_hand]
  IN  [b EXCEPT !.flight_time = Some(flight_time),
                !.catch_time = Some(current_time + flight_time),
                !.dest_hand = dest_hand,
                !.start_time = Some(current_time),
                !.start_pos = source_pos,
                !.vx = <<dest_pos[1][1] - source_pos[1][1], flight_time>>,
                !.vy = Some((g * flight_time) \div 4),
                !.state = "in_air"]
Throw(b, current_time, ss, p) ==
  LET beat == Round(b.next_throw_time, T_beat)
      throw_value == ss[(beat % p) + 1]
      flight_time == throw_value * T_beat
      source_hand == b.hand
      source_pos == hand_positions[source_hand]
      dest_hand == DestHand(source_hand, throw_value)
      dest_pos == hand_positions[dest_hand]
  IN  [b EXCEPT !.flight_time = Some(flight_time),
                !.catch_time = Some(current_time + flight_time),
                !.dest_hand = dest_hand,
                !.start_time = Some(current_time),
                !.start_pos = source_pos,
                !.vx = <<dest_pos[1][1] - source_pos[1][1], flight_time>>,
                !.vy = Some((g * flight_time) \div 2),
                !.state = "in_air"]

\* line 86: the release condition of a ball in hand
DueHandFree(b, current_time) ==
  /\ current_time >= b.next_throw_time + throw_delay
  /\ \A j \in DOMAIN balls :
       (balls[j].ball_id # b.ball_id /\ balls[j].state = "in_hand") =>
         balls[j].hand # b.hand
DueNoDelay(b, current_time) == current_time >= b.next_throw_time
Due(b, current_time) == current_time >= b.next_throw_time + throw_delay

\* lines 78-83: the ball is caught
CatchAtUpdateTime(b, current_time) ==
  [b EXCEPT !.state = "in_hand",
            !.hand = b.dest_hand,
            !.pos = hand_positions[b.dest_hand],
            !.next_throw_time = current_time]
CatchFlightOnly(b, current_time) ==
  [b EXCEPT !.state = "in_hand",
            !.hand = b.dest_hand,
            !.pos = hand_positions[b.dest_hand],
            !.next_throw_time = Val(b.flight_time)]
CatchNoSnap(b, current_time) ==
  [b EXCEPT !.state = "in_hand",
            !.hand = b.dest_hand,
            !.next_throw_time = Val(b.catch_time)]
CatchOldHandPos(b, current_time) ==
  [b EXCEPT !.state = "in_hand",
            !.hand = b.dest_hand,
            !.pos = hand_positions[b.hand],
            !.next_throw_time = Val(b.catch_time)]
CatchKeepsHand(b, current_time) ==
  [b EXCEPT !.state = "in_hand",
            !.pos = hand_positions[b.hand],
            !.next_throw_time = Val(b.catch_time)]
CatchKeepsFlying(b, current_time) ==
  [b EXCEPT !.hand = b.dest_hand,
            !.pos = hand_positions[b.dest_hand],
            !.next_throw_time = Val(b.catch_time)]
CatchOtherState(b, current_time) ==
  [b EXCEPT !.state = "held",
            !.hand = b.dest_hand,
            !.pos = hand_positions[b.dest_hand],
            !.next_throw_time = Val(b.catch_time)]
Catch(b, current_time) ==
  [b EXCEPT !.state = "in_hand",
            !.hand = b.dest_hand,
            !.pos = hand_positions[b.dest_hand],
            !.next_throw_time = Val(b.catch_time)]

\* Ball.update
Update(b, current_time, ss, p) ==
  IF b.state = "in_air" THEN
    LET t == current_time - Val(b.start_time) IN
    IF t < Val(b.flight_time) THEN
      LET x == <<b.start_pos[1][1] * b.vx[2] + b.vx[1] * t, b.vx[2]>>
          y == b.start_pos[2] + Val(b.vy) * t - (g * t * t) \div 2
      IN  [b EXCEPT !.pos = <<x, y>>]
    ELSE Catch(b, current_time)
  ELSE IF b.state = "in_hand" THEN
    IF Due(b, current_time)
    THEN Throw(b, current_time, ss, p)
    ELSE [b EXCEPT !.pos = hand_positions[b.hand]]
  ELSE b

\* ----- Main program -----
Inputs == UNION {[1..n -> InputChars] : n \in 0..MaxLen}

Init ==
  /\ pc = "input"
  /\ siteswap_input \in Inputs
  /\ siteswap = << >>
  /\ period = 0
  /\ num_balls = 0
  /\ balls = << >>
  /\ sim_time = 0
  /\ nframes = 0
  /\ todo = {}
  /\ frame_balls = << >>

\* as Initialize, but an empty pattern is taken as zero balls and runs on
InitializeEmptyRuns ==
  /\ pc = "input"
  /\ LET ss == ParseDigits(siteswap_input) IN
       /\ siteswap' = ss
       /\ period' = Len(ss)
       /\ pc' = "running"
       /\ num_balls' = IF Len(ss) = 0 THEN 0 ELSE NumBalls(ss)
       /\ balls' = [k \in 1..num_balls' |->
                      NewBall(k - 1, (k - 1) * T_beat,
                              IF (k - 1) % 2 = 0 THEN "R" ELSE "L")]
  /\ UNCHANGED <<siteswap_input, sim_time, nframes, todo, frame_balls>>

\* lines 93-107 and 134-135: parse the pattern, derive period and num_balls
\* (ZeroDivisionError for an empty pattern ends the program), create the balls
Initialize ==
  /\ pc = "input"
  /\ LET ss == ParseDigits(siteswap_input) IN
       /\ siteswap' = ss
       /\ period' = Len(ss)
       /\ IF Len(ss) = 0
          THEN /\ pc' = "ZeroDivisionError"
               /\ UNCHANGED <<num_balls, balls>>
          ELSE /\ pc' = "running"
               /\ num_balls' = NumBalls(ss)
               /\ balls' = [k \in 1..NumBalls(ss) |->
                              NewBall(k - 1, (k - 1) * T_beat,
                                      IF (k - 1) % 2 = 0 THEN "R" ELSE "L")]
  /\ UNCHANGED <<siteswap_input, sim_time, nframes, todo, frame_balls>>

\* update_frame with the rounding error of the clock drawn from errs:
\* advance the clock, then update every ball
Frame(errs) ==
  /\ pc = "running"
  /\ nframes < MaxFrames
  /\ nframes' = nframes + 1
  /\ \E err \in errs :
       /\ sim_time' = nframes' * dt - err
       /\ balls' = [k \in DOMAIN balls |->
                      Update(balls[k], sim_time', siteswap, period)]
  /\ UNCHANGED <<pc, siteswap_input, siteswap, period, num_balls, todo,
                 frame_balls>>

update_frame == Frame({0, 1})

Next == Initialize \/ update_frame

Spec == Init /\ [][Next]_vars

\* ----- the balls of one frame updated one at a time, in any order -----
\* lines 138-139: the clock advances (here by exactly dt) and every ball
\* awaits its update
begin_frame ==
  /\ pc = "running"
  /\ todo = {}
  /\ nframes < MaxFrames
  /\ nframes' = nframes + 1
  /\ sim_time' = nframes' * dt
  /\ todo' = DOMAIN balls
  /\ frame_balls' = balls
  /\ UNCHANGED <<pc, siteswap_input, siteswap, period, num_balls, balls>>

\* line 142 for one ball of the list
update_ball(k) ==
  /\ pc = "running"
  /\ k \in todo
  /\ balls' = [balls EXCEPT ![k] = Update(balls[k], sim_time, siteswap, period)]
  /\ todo' = todo \ {k}
  /\ UNCHANGED <<pc, siteswap_input, siteswap, period, num_balls, sim_time,
                 nframes, frame_balls>>

NextAnyOrder ==
  \/ Initialize
  \/ begin_frame
  \/ \E k \in DOMAIN balls : update_ball(k)

SpecAnyOrder == Init /\ [][NextAnyOrder]_vars

\* ----- the clock advancing by exactly dt, forever -----
\* FuncAnimation keeps calling update_frame; the clock is taken without
\* rounding error, so every step is the same
update_frame_fixed_step == Frame({0})

NextFixedStep == Initialize \/ update_frame_fixed_step

SpecFixedStep ==
  Init /\ [][NextFixedStep]_vars /\ WF_vars(update_frame_fixed_step)

\* ------------------------------------------------------------------------
\* Properties
\* ------------------------------------------------------------------------
Held(k) == balls[k].state = "in_hand"
InFlight(k) == balls[k].state = "in_air"
Abs(n) == IF n < 0 THEN -n ELSE n
\* the throw value a ball in the air was thrown with
ThrowValue(k) == Val(balls[k].flight_time) \div T_beat

\* C1: a ball in hand is thrown by an update exactly when that update's time
\* is at least next_throw_time + throw_delay; the throw is the only way out
\* of the hand, and it launches at the update's time.
C1_ThrowExactlyWhenDue ==
  [][pc = "running" =>
       \A k \in DOMAIN balls :
         Held(k) =>
           /\ (balls'[k].state = "in_air") <=>
                (sim_time' >= balls[k].next_throw_time + throw_delay)
           /\ balls'[k].state \in {"in_hand", "in_air"}
           /\ balls'[k].state = "in_air" =>
                balls'[k].start_time = Some(sim_time')]_vars

\* a ball thrown by this very update, the previous update having been too early
C1_Witness ==
  \E k \in DOMAIN balls :
    /\ InFlight(k)
    /\ balls[k].start_time = Some(sim_time)
    /\ sim_time >= balls[k].next_throw_time + throw_delay
    /\ (nframes - 1) * dt < balls[k].next_throw_time + throw_delay
    /\ nframes > 1

\* C2: the flight time of every thrown ball is throw_value * T_beat, where
\* throw_value is the pattern entry at the beat nearest to the scheduled
\* throw time (not the release time); it is a multiple of the beat.
C2_FlightFromScheduledBeat ==
  pc = "running" =>
    \A k \in DOMAIN balls :
      InFlight(k) =>
        /\ \E beat \in 0..(balls[k].next_throw_time \div T_beat + 1) :
             /\ 2 * Abs(balls[k].next_throw_time - beat * T_beat) <= T_beat
             /\ balls[k].flight_time =
                  Some(siteswap[(beat % period) + 1] * T_beat)
        /\ Val(balls[k].flight_time) % T_beat = 0

\* a ball in the air whose release time lies nearest to another beat, with
\* another throw value, than its scheduled time
C2_Witness ==
  \E k \in DOMAIN balls :
    /\ InFlight(k)
    /\ \E beat \in 0..(Val(balls[k].start_time) \div T_beat + 1) :
         /\ 2 * Abs(Val(balls[k].start_time) - beat * T_beat) < T_beat
         /\ siteswap[(beat % period) + 1] # ThrowValue(k)

\* C3: a throw goes to the opposite hand when the throw value is odd and to
\* the same hand when it is even; the catch puts the ball in that hand.
C3_DestinationHand ==
  [][pc = "running" =>
       \A k \in DOMAIN balls :
         /\ (Held(k) /\ balls'[k].state = "in_air") =>
              LET tv == Val(balls'[k].flight_time) \div T_beat IN
              balls'[k].dest_hand =
                IF tv % 2 = 1 THEN Opposite(balls[k].hand) ELSE balls[k].hand
         /\ (InFlight(k) /\ balls'[k].state = "in_hand") =>
              balls'[k].hand = balls[k].dest_hand]_vars

\* one ball caught after a crossing throw, another after a self-throw
C3_Witness ==
  /\ \E k \in DOMAIN balls :
       /\ Held(k) /\ balls[k].flight_time # None
       /\ ThrowValue(k) % 2 = 1
       /\ balls[k].hand = balls[k].dest_hand
       /\ balls[k].start_pos # hand_positions[balls[k].hand]
  /\ \E k \in DOMAIN balls :
       /\ Held(k) /\ balls[k].flight_time # None
       /\ ThrowValue(k) % 2 = 0 /\ ThrowValue(k) > 0
       /\ balls[k].hand = balls[k].dest_hand
       /\ balls[k].start_pos = hand_positions[balls[k].hand]

\* C4: a ball in the air is caught by the first update whose time is at
\* least flight_time past start_time, and by no earlier one; the catch
\* sets state, hand, pos and next_throw_time = start_time + flight_time,
\* however late the catching update is.
C4_CatchAtExactTime ==
  [][pc = "running" =>
       \A k \in DOMAIN balls :
         InFlight(k) =>
           /\ (balls'[k].state = "in_hand") <=>
                (sim_time' - Val(balls[k].start_time) >=
                   Val(balls[k].flight_time))
           /\ balls'[k].state = "in_hand" =>
                /\ balls'[k].hand = balls[k].dest_hand
                /\ balls'[k].pos = hand_positions[balls[k].dest_hand]
                /\ balls'[k].next_throw_time =
                     Val(balls[k].start_time) + Val(balls[k].flight_time)]_vars

\* the update that catches the ball runs strictly after the catch time
C4_Witness ==
  \E k \in DOMAIN balls :
    /\ Held(k) /\ balls[k].flight_time # None
    /\ Val(balls[k].flight_time) > 0
    /\ balls[k].next_throw_time =
         Val(balls[k].start_time) + Val(balls[k].flight_time)
    /\ (nframes - 1) * dt < balls[k].next_throw_time
    /\ balls[k].next_throw_time < sim_time

\* C5: next_throw_time of a ball never decreases, and a throw does not
\* change it.
C5_ScheduledTimeMonotone ==
  [][pc = "running" =>
       \A k \in DOMAIN balls :
         /\ balls'[k].next_throw_time >= balls[k].next_throw_time
         /\ (Held(k) /\ balls'[k].state = "in_air") =>
              balls'[k].next_throw_time = balls[k].next_throw_time]_vars

\* a ball caught at least twice, its schedule moved on each time
C5_Witness ==
  \E k \in DOMAIN balls :
    /\ Held(k) /\ balls[k].catch_time # None
    /\ balls[k].next_throw_time = Val(balls[k].catch_time)
    /\ balls[k].next_throw_time > (k - 1) * T_beat + 2 * T_beat
    /\ Val(balls[k].start_time) > (k - 1) * T_beat + throw_delay + dt

\* C6: the balls created at initialization stay the same balls, and each is
\* in hand or in the air: the two counts add up to num_balls.
C6_Conservation ==
  pc = "running" =>
    /\ Len(balls) = num_balls
    /\ \A k \in DOMAIN balls :
         balls[k].ball_id = k - 1 /\ balls[k].state \in {"in_hand", "in_air"}
    /\ Cardinality({k \in DOMAIN balls : Held(k)})
         + Cardinality({k \in DOMAIN balls : InFlight(k)}) = num_balls

\* balls in both states, one of them already caught once
C6_Witness ==
  /\ pc = "running"
  /\ \E k \in DOMAIN balls : InFlight(k)
  /\ \E k \in DOMAIN balls : Held(k) /\ balls[k].catch_time # None

\* C7: an empty pattern ends initialization with an error: no ball is
\* created, no frame runs, and no run has period 0.
C7_EmptyPatternFails ==
  /\ (pc # "input" /\ period = 0) =>
       (pc = "ZeroDivisionError" /\ balls = << >> /\ nframes = 0)
  /\ pc = "running" => period > 0

\* input without any digit
C7_Witness ==
  pc = "ZeroDivisionError" /\ siteswap_input # << >>

\* C8: no throw divides by zero: the divisor flight_time of line 58 is
\* never zero.
C8_NoZeroDivisor ==
  \A k \in DOMAIN balls :
    InFlight(k) => (Val(balls[k].flight_time) # 0 /\ balls[k].vx[2] # 0)

\* C9: period is the number of digits typed and num_balls is
\* sum(siteswap) / period truncated; when the division is exact,
\* sum(siteswap) = period * num_balls.
C9_PeriodAndBallCount ==
  pc = "running" =>
    /\ period = Cardinality({i \in DOMAIN siteswap_input :
                               isdigit(siteswap_input[i])})
    /\ period = Len(siteswap)
    /\ num_balls * period <= sum(siteswap)
    /\ sum(siteswap) < (num_balls + 1) * period
    /\ (sum(siteswap) % period = 0 => sum(siteswap) = period * num_balls)

\* a pattern whose sum is not divisible by its period
C9_Witness ==
  pc = "running" /\ sum(siteswap) % period # 0 /\ num_balls > 0

\* C10: right after initialization there are num_balls balls with ids
\* 0..num_balls-1, ball i in hand, right hand for even i and left for odd i,
\* at that hand's position, scheduled at i * T_beat.
C10_InitialBalls ==
  (pc = "running" /\ nframes = 0) =>
    /\ Len(balls) = num_balls
    /\ \A k \in DOMAIN balls :
         /\ balls[k].ball_id = k - 1
         /\ balls[k].state = "in_hand"
         /\ balls[k].hand = (IF (k - 1) % 2 = 0 THEN "R" ELSE "L")
         /\ balls[k].pos = hand_positions[balls[k].hand]
         /\ balls[k].next_throw_time = (k - 1) * T_beat

C10_Witness ==
  pc = "running" /\ nframes = 0 /\ num_balls >= 3

\* the largest digit that can be typed bounds the number of balls
MaxDigit ==
  CHOOSE m \in {DigitVal[c] : c \in InputChars \cap DOMAIN DigitVal} :
    \A c \in InputChars \cap DOMAIN DigitVal : DigitVal[c] <= m
BallSlots == 1..MaxDigit
\* the clock value that every run reaches or passes before the horizon
Horizon == MaxFrames * dt - 1

\* C11: with the clock advancing forever, a ball in hand is eventually
\* thrown and a ball in the air is eventually caught (checked for every
\* throw and catch that falls due before the horizon of the model).
C11_BallsCycle ==
  \A k \in BallSlots :
    /\ (/\ k \in DOMAIN balls /\ Held(k)
        /\ balls[k].next_throw_time + throw_delay <= Horizon)
         ~> (k \in DOMAIN balls /\ InFlight(k))
    /\ (/\ k \in DOMAIN balls /\ InFlight(k)
        /\ Val(balls[k].start_time) + Val(balls[k].flight_time) <= Horizon)
         ~> (k \in DOMAIN balls /\ Held(k))

\* a ball in the air for the second time
C11_Witness ==
  \E k \in DOMAIN balls :
    /\ InFlight(k)
    /\ Val(balls[k].start_time) > (k - 1) * T_beat + throw_delay + dt
    /\ Val(balls[k].flight_time) > 0

\* C12: within a frame the balls may be updated in any order: whatever has
\* been done so far, every ball already updated is what its own update
\* makes of its state at the beginning of the frame, and every other ball
\* is untouched.
C12_OrderIndependent ==
  (pc = "running" /\ nframes > 0) =>
    \A k \in DOMAIN balls :
      balls[k] = IF k \in todo THEN frame_balls[k]
                 ELSE Update(frame_balls[k], sim_time, siteswap, period)

\* a frame in which a later ball of the list has changed state before an
\* earlier one whose update changes its state too
C12_Witness ==
  /\ pc = "running"
  /\ \E j \in todo : \E k \in DOMAIN balls \ todo :
       /\ j < k
       /\ balls[k].state # frame_balls[k].state
       /\ Update(balls[j], sim_time, siteswap, period).state # balls[j].state

\* C13: the position has y = 0 after the update that launches a ball and
\* after the update that catches it.
C13_BaselineAtLaunchAndCatch ==
  [][pc = "running" =>
       \A k \in DOMAIN balls :
         /\ (Held(k) /\ balls'[k].state = "in_air") => balls'[k].pos[2] = 0
         /\ (InFlight(k) /\ balls'[k].state = "in_hand") =>
              balls'[k].pos[2] = 0]_vars

\* one ball launched and another caught by the same update, the caught one
\* after a flight that rose above the baseline
C13_Witness ==
  /\ \E k \in DOMAIN balls :
       /\ InFlight(k) /\ balls[k].start_time = Some(sim_time)
       /\ balls[k].pos[2] = 0
  /\ \E k \in DOMAIN balls :
       /\ Held(k) /\ balls[k].catch_time # None
       /\ Val(balls[k].flight_time) > 0
       /\ balls[k].next_throw_time = Val(balls[k].catch_time)
       /\ (nframes - 1) * dt < balls[k].next_throw_time
       /\ balls[k].next_throw_time <= sim_time
       /\ balls[k].pos[2] = 0

\* C14: a ball in hand is at the position of its hand.
C14_HeldAtHandPosition ==
  pc = "running" =>
    \A k \in DOMAIN balls :
      Held(k) => balls[k].pos = hand_positions[balls[k].hand]

\* a ball just caught in the hand opposite to the one it left
C14_Witness ==
  \E k \in DOMAIN balls :
    /\ Held(k) /\ balls[k].catch_time # None
    /\ balls[k].start_pos # hand_positions[balls[k].hand]
    /\ (nframes - 1) * dt < Val(balls[k].catch_time)
    /\ Val(balls[k].catch_time) <= sim_time

InitialHand(k) == IF (k - 1) % 2 = 0 THEN "R" ELSE "L"

\* C15: when all throw values of the pattern are even, every ball stays
\* with the hand it started in, through throws and catches.
C15_EvenPatternKeepsHand ==
  (pc = "running" /\ \A i \in DOMAIN siteswap : siteswap[i] % 2 = 0) =>
    \A k \in DOMAIN balls :
      /\ balls[k].hand = InitialHand(k)
      /\ InFlight(k) => balls[k].dest_hand = InitialHand(k)

\* pattern 40: a ball back in its hand after a 4, another ball in the air
C15_Witness ==
  /\ siteswap = <<4, 0>>
  /\ \E k \in DOMAIN balls :
       /\ Held(k) /\ balls[k].flight_time # None /\ ThrowValue(k) = 4
       /\ balls[k].hand = InitialHand(k)
  /\ \E k \in DOMAIN balls : InFlight(k)

\* C16: in pattern 51 (period 2, three balls) every throw of a ball goes to
\* the hand opposite to the destination of that ball's previous throw.
C16_Pattern51Alternates ==
  [][(pc = "running" /\ siteswap = <<5, 1>>) =>
       /\ period = 2 /\ num_balls = 3
       /\ \A k \in DOMAIN balls :
            (Held(k) /\ balls'[k].state = "in_air"
               /\ balls[k].dest_hand # "None") =>
              balls'[k].dest_hand = Opposite(balls[k].dest_hand)]_vars

\* a ball of pattern 51 on its third throw, flying to the hand it
\* started in
C16_Witness ==
  /\ siteswap = <<5, 1>>
  /\ \E k \in DOMAIN balls :
       /\ InFlight(k)
       /\ balls[k].dest_hand = Opposite(InitialHand(k))
       /\ balls[k].hand = InitialHand(k)
       /\ Val(balls[k].start_time) > (k - 1) * T_beat + 3 * T_beat

\* C18: an update of a ball in the air before its catch changes only pos,
\* and hand is still the hand it left; a throw leaves hand and
\* next_throw_time alone; an update of a ball in hand that is not due only
\* re-sets pos to the hand's position.
C18_FrameEffects ==
  [][pc = "running" =>
       \A k \in DOMAIN balls :
         /\ (InFlight(k) /\ sim_time' - Val(balls[k].start_time)
                              < Val(balls[k].flight_time)) =>
              /\ balls'[k] = [balls[k] EXCEPT !.pos = balls'[k].pos]
              /\ balls'[k].start_pos = hand_positions[balls'[k].hand]
         /\ (Held(k) /\ balls'[k].state = "in_air") =>
              /\ balls'[k].hand = balls[k].hand
              /\ balls'[k].next_throw_time = balls[k].next_throw_time
              /\ balls'[k].pos = balls[k].pos
              /\ balls'[k].ball_id = balls[k].ball_id
         /\ (Held(k) /\ sim_time' < balls[k].next_throw_time + throw_delay) =>
              balls'[k] =
                [balls[k] EXCEPT !.pos = hand_positions[balls[k].hand]]]_vars

\* a ball in mid-flight, away from where it was launched, next to a ball
\* waiting in a hand after a catch
C18_Witness ==
  /\ \E k \in DOMAIN balls :
       /\ InFlight(k) /\ balls[k].pos # balls[k].start_pos
       /\ balls[k].dest_hand # balls[k].hand
  /\ \E k \in DOMAIN balls :
       /\ Held(k) /\ balls[k].catch_time # None
       /\ sim_time < balls[k].next_throw_time + throw_delay

\* C19: the beat of a ball's next throw is the beat of its current throw
\* plus the current throw value.
C19_CadencePreserved ==
  [][pc = "running" =>
       \A k \in DOMAIN balls :
         (InFlight(k) /\ balls'[k].state = "in_hand") =>
           Round(balls'[k].next_throw_time, T_beat) =
             Round(balls[k].next_throw_time, T_beat) + ThrowValue(k)]_vars

Min(a, b) == IF a <= b THEN a ELSE b
Max(a, b) == IF a >= b THEN a ELSE b

\* C20: the position of a ball in the air has y >= 0 and x between the x
\* of the hand it left and the x of its destination hand.
C20_FlightEnvelope ==
  pc = "running" =>
    \A k \in DOMAIN balls :
      InFlight(k) =>
        LET x == balls[k].pos[1]
            from == balls[k].start_pos[1][1]
            to == hand_positions[balls[k].dest_hand][1][1]
        IN  /\ balls[k].pos[2] >= 0
            /\ x[2] > 0
            /\ Min(from, to) * x[2] <= x[1]
            /\ x[1] <= Max(from, to) * x[2]

\* a ball above the baseline, strictly between the hands, past the top of
\* its arc
C20_Witness ==
  \E k \in DOMAIN balls :
    /\ InFlight(k)
    /\ balls[k].pos[2] > 0
    /\ -balls[k].pos[1][2] < balls[k].pos[1][1]
    /\ balls[k].pos[1][1] < balls[k].pos[1][2]
    /\ 2 * (sim_time - Val(balls[k].start_time)) > Val(balls[k].flight_time)

=============================================================================
